---- MODULE Spec2Model ----
(***************************************************************************)
(* Model of tensorflow/python/compiler/xla/xla.py: the XLACompileContext   *)
(* control-flow context (AddOp / AddValue / AddInnerOp), the compile       *)
(* driver _compile_internal and the output normalizers.                    *)
(*                                                                         *)
(* The graph library (operation creation, the control-flow-context stack,  *)
(* nest.flatten / pack_sequence_as, convert_to_tensor, group) is outside   *)
(* xla.py; it is modelled only as far as xla.py uses it.                   *)
(*                                                                         *)
(* Environment assumption: the tensors handed to the driver as inputs and  *)
(* the tensors a computation returns are not reference-typed; reference-   *)
(* typed tensors occur only as inputs of operations built by user code.    *)
(***************************************************************************)
EXTENDS Integers, Sequences, FiniteSets, TLC

(* ------------------------------ bounds -------------------------------- *)
MaxUserOps == 2     \* operations built explicitly by user code
MaxCalls == 2       \* calls of the compile driver
MaxDepth == 2       \* compile calls active at the same time
MaxLeaves == 2      \* leaves of a returned output structure
MaxInputs == 1      \* length of the driver's input list
MaxResolves == 2    \* calls of AddValue made from outside AddOp
MaxParams == 3      \* declared parameters of a checked function
MaxSupplied == 4    \* explicit arguments supplied to a checked function
MaxQueue == 2
MaxUnsupported == 6
MaxConds == 2
MaxValueSteps == 5       \* tuple elements of an infeed queue

(* ------------------------- program constants -------------------------- *)
_MAX_WARNING_LINES == 5
_BLACKLISTED_OPS == {"Placeholder"}
_UNSUPPORTED_OPS == {"AudioSummary", "AudioSummaryV2", "HistogramSummary",
                     "ImageSummary", "MergeSummary", "Print", "ScalarSummary",
                     "TensorSummary", "TensorSummaryV2"}
NoAttr == ""        \* _XLA_COMPILE_ATTR absent from node_def.attr

VARIABLES ops,           \* the graph's operations, by creation order
          ctxs,          \* the XLACompileContext objects, by creation order
          cur,           \* graph._control_flow_context (0 is None)
          addok,         \* history: <<c, o>> such that c.AddOp(o) returned
          frames,        \* active _compile_internal calls, innermost last
          exc,           \* exception propagating through the user function
          last,          \* outcome of the driver call that ended last
          use_resource,  \* variable scope's use_resource flag
          skip_summary,  \* summary_op_util.skip_summary() value
          errlog,        \* operations reported through logging.error
          built,         \* operations user code built and holds
          ncalls,        \* driver calls so far
          hist,          \* history: the calls and events so far, in order
          names_in_use,  \* names "cluster" the graph's unique_name gave
          arity          \* a call of check_function_argument_count

vars == <<ops, ctxs, cur, addok, frames, exc, last, use_resource,
          skip_summary, errlog, built, ncalls, hist, names_in_use, arity>>

(* --------------------------- small helpers ---------------------------- *)
Range(s) == {s[i] : i \in 1..Len(s)}
Front(s) == SubSeq(s, 1, Len(s) - 1)
Put(f, k, v) == [x \in (DOMAIN f) \cup {k} |-> IF x = k THEN v ELSE f[x]]
EmptyMap == [x \in {} |-> <<0, 0>>]

Failed(W) == W.err # "none"

\* an entry of the history: event e of context ctx; for a call of AddValue
\* the value asked for, the value returned, whether the context had seen
\* the value before the call and whether the call changed the context
NoTensor == <<0, 0>>
Event(e, ctx, val, ret, seen, changed) ==
  [e |-> e, ctx |-> ctx, val |-> val, ret |-> ret, seen |-> seen,
   changed |-> changed]
Note(W, e, ctx) ==
  [W EXCEPT !.hist = Append(@, Event(e, ctx, NoTensor, NoTensor, FALSE, FALSE))]
Raise(W, e) == [W EXCEPT !.err = e]

\* x.outputs of operation o: tensors are <<operation, output index>>
Outputs(W, o) == [i \in 1..W.ops[o].nout |-> <<o, i - 1>>]
\* x.dtype._is_ref_dtype of tensor t
IsRefTensor(W, t) == W.ops[t[1]].is_ref

(* unique_name('cluster'): the k-th name "cluster" the graph gives *)
ClusterName(k) == <<"cluster", "cluster_1", "cluster_2", "cluster_3",
                    "cluster_4">>[k]

(* ------------------ control-flow context base class ------------------- *)
\* ControlFlowContext.__init__ via XLACompileContext.__init__
NewContext(W, name, pivot) ==
  [W EXCEPT !.ctxs = Append(@, [kind |-> "xla", name |-> name, pivot |-> pivot,
                                values |-> {}, external_values |-> EmptyMap,
                                unsupported_ops |-> <<>>,
                                outer_context |-> W.cur,
                                context_stack |-> <<>>])]

\* ControlFlowContext.Enter
Enter(W, c) ==
  [W EXCEPT !.ctxs[c].context_stack = Append(@, W.cur), !.cur = c,
            !.hist = Append(@, Event("Enter", c, NoTensor, NoTensor,
                                     FALSE, FALSE))]

\* ControlFlowContext.Exit
Exit(W, c) ==
  LET st == W.ctxs[c].context_stack
  IN [W EXCEPT !.cur = st[Len(st)], !.ctxs[c].context_stack = Front(st),
               !.hist = Append(@, Event("Exit", c, NoTensor, NoTensor,
                                        FALSE, FALSE))]

\* ControlFlowContext.AddName
AddName(W, c, name) == [W EXCEPT !.ctxs[c].values = @ \cup {name}]

(* ------------------------- XLACompileContext -------------------------- *)
\* Every operator below maps a world W (graph, contexts, pending error,
\* returned value W.ret) to the world after the code ran.  Once W.err is
\* set the remaining steps are skipped, as after a raise.
RECURSIVE InChain(_, _, _)
\* the while loop of _RemoveExternalControlEdges: is c on the chain of ctxt
InChain(W, ctxt, c) ==
  IF ctxt = 0 THEN FALSE
  ELSE IF ctxt = c THEN TRUE
  ELSE InChain(W, W.ctxs[ctxt].outer_context, c)

internal_control_inputs(W, c, o) ==
  SelectSeq(W.ops[o].control_inputs, LAMBDA x : InChain(W, W.ops[x].ctx, c))

external_control_inputs(W, c, o) ==
  SelectSeq(W.ops[o].control_inputs, LAMBDA x : ~InChain(W, W.ops[x].ctx, c))

_RemoveExternalControlEdges(W, c, o) ==
  [W EXCEPT !.ops[o].control_inputs = internal_control_inputs(W, c, o)]

\* AddOp, blacklist test: logs an error and goes on
LogBlacklisted(W, c, o) ==
  IF W.ops[o].type \in _BLACKLISTED_OPS
  THEN [W EXCEPT !.errlog = Append(@, o)]
  ELSE W

\* AddOp, unsupported test
RecordUnsupported(W, c, o) ==
  IF W.ops[o].type \in _UNSUPPORTED_OPS
  THEN [W EXCEPT !.ctxs[c].unsupported_ops = Append(@, o)]
  ELSE W

\* AddOp, reference-typed input test
CheckRefInputs(W, c, o) ==
  IF \E x \in Range(W.ops[o].inputs) : IsRefTensor(W, x)
  THEN Raise(W, "NotImplementedError")
  ELSE W

\* AddOp, nesting test
CheckNotTagged(W, c, o) ==
  IF Failed(W) THEN W
  ELSE IF W.ops[o].attr # NoAttr THEN Raise(W, "ValueError_nested")
  ELSE W

\* AddOp, op._set_attr(_XLA_COMPILE_ATTR, name)
SetClusterAttrSkipBlacklisted(W, c, o) ==
  IF W.ops[o].type \in _BLACKLISTED_OPS THEN W
  ELSE [W EXCEPT !.ops[o].attr = W.ctxs[c].name]

SetClusterAttr(W, c, o) == [W EXCEPT !.ops[o].attr = W.ctxs[c].name]

\* AddOp, prevent_feeding / prevent_fetching
PreventFeedFetch(W, c, o) ==
  [W EXCEPT !.ops[o].feedable = FALSE, !.ops[o].fetchable = FALSE]

RECURSIVE AddOp(_, _, _), AddInnerOp(_, _, _), AddValue(_, _, _)
RECURSIVE ResolveInputs(_, _, _, _), MakeIdentities(_, _, _, _, _)
RECURSIVE MarkSeen(_, _, _)
RECURSIVE ContextAddOp(_, _, _), ContextAddInnerOp(_, _, _)
RECURSIVE ContextAddValue(_, _, _)

\* Operation._control_flow_post_processing: the current context is told
\* about the operation just created
NotifyContext(W) ==
  IF W.cur = 0 THEN W ELSE ContextAddOp(W, W.cur, Len(W.ops))

RECURSIVE Unique(_)
\* the control inputs of a new operation: each operation once, in the
\* order of its first occurrence
Unique(s) ==
  IF s = <<>> THEN <<>>
  ELSE IF s[Len(s)] \in Range(Front(s)) THEN Unique(Front(s))
  ELSE Append(Unique(Front(s)), s[Len(s)])

\* graph.create_op: the new operation belongs to the current context
create_op(W, type, inputs, control_inputs, nout, is_ref) ==
  IF Failed(W) THEN W
  ELSE NotifyContext([W EXCEPT !.ops = Append(@,
         [type |-> type, inputs |-> inputs,
          control_inputs |-> Unique(control_inputs),
          orig_control |-> Unique(control_inputs),
          attr |-> NoAttr, ctx |-> W.cur, nout |-> nout,
          is_ref |-> is_ref, feedable |-> TRUE, fetchable |-> TRUE])])

\* AddValue, result and self._values.add(result.name) after the outer call
AddValueAdopt(W, c) ==
  IF Failed(W) THEN W ELSE [W EXCEPT !.ctxs[c].values = @ \cup {W.ret}]

\* AddValue, resolution through the outer context
AddValueOuter(W, c, val) ==
  IF W.ctxs[c].outer_context # 0
  THEN AddValueAdopt(
         ContextAddValue(
           [W EXCEPT !.hist = Append(@,
              Event("outer.AddValue", c, val, NoTensor, FALSE, FALSE))],
           W.ctxs[c].outer_context, val),
         c)
  ELSE [W EXCEPT !.ret = val]

\* AddValue, self._external_values[val.name] = result
AddValueRecordNothing(W, c, val) == W

AddValueRecord(W, c, val) ==
  IF Failed(W) THEN W
  ELSE [W EXCEPT !.ctxs[c].external_values = Put(@, val, W.ret)]

\* AddValue returns: the call is entered in the history with what it
\* returned and whether it changed the context (before: the context as the
\* call found it)
AddValueReturn(W, c, val, before) ==
  IF Failed(W) THEN W
  ELSE [W EXCEPT !.hist = Append(@,
     Event("AddValue", c, val, W.ret, val \in before.values,
           \/ W.ctxs[c].values # before.values
           \/ W.ctxs[c].external_values # before.external_values))]

\* XLACompileContext.AddValue; the resolved value is left in W.ret
AddValueNoMemo(W, c, val) ==
  AddValueReturn(
    AddValueRecord(
      AddValueOuter([W EXCEPT !.ctxs[c].values = @ \cup {val}], c, val),
      c, val),
    c, val, W.ctxs[c])

AddValue(W, c, val) ==
  AddValueReturn(
    IF val \in W.ctxs[c].values
    THEN [W EXCEPT !.ret = IF val \in DOMAIN W.ctxs[c].external_values
                           THEN W.ctxs[c].external_values[val] ELSE val]
    ELSE AddValueRecord(
           AddValueOuter([W EXCEPT !.ctxs[c].values = @ \cup {val}], c, val),
           c, val),
    c, val, W.ctxs[c])

\* AddOp, op._update_input(index, real_x) when real_x differs from x
UpdateInput(W, o, index) ==
  IF Failed(W) THEN W
  ELSE IF W.ret # W.ops[o].inputs[index]
  THEN [W EXCEPT !.ops[o].inputs[index] = W.ret]
  ELSE W

\* AddOp, the loop over op.inputs
ResolveInputs(W, c, o, index) ==
  IF Failed(W) THEN W
  ELSE IF index > Len(W.ops[o].inputs) THEN W
  ELSE ResolveInputs(
         UpdateInput(AddValue(W, c, W.ops[o].inputs[index]), o, index),
         c, o, index + 1)

\* AddOp, pivot edge or input resolution
AddPivotOrResolveInputsNoPivot(W, c, o, internal) ==
  IF W.ops[o].inputs = <<>> THEN W ELSE ResolveInputs(W, c, o, 1)

AddPivotOrResolveInputs(W, c, o, internal) ==
  IF W.ops[o].inputs = <<>>
  THEN IF internal = <<>>
       THEN [W EXCEPT !.ops[o].control_inputs = Append(@, W.ctxs[c].pivot)]
       ELSE W
  ELSE ResolveInputs(W, c, o, 1)

\* AddOp, the list comprehension building identities of external inputs
MakeIdentities(W, c, ext, i, acc) ==
  IF Failed(W) THEN W
  ELSE IF i > Len(ext) THEN [W EXCEPT !.ret = acc]
  ELSE IF W.ops[ext[i]].nout > 0
  THEN MakeIdentities(
         create_op(W, "Identity", <<Outputs(W, ext[i])[1]>>, <<>>, 1, FALSE),
         c, ext, i + 1, Append(acc, Len(W.ops) + 1))
  ELSE MakeIdentities(W, c, ext, i + 1, acc)

\* AddOp, end of the with block: self.Exit() unless the comprehension raised,
\* the control-flow context saved by control_dependencies(None) restored,
\* then op._add_control_inputs(external_control_inputs)
PullExternalEnd(W, c, o, old) ==
  IF Failed(W) THEN [W EXCEPT !.cur = old]
  ELSE [Exit(W, c) EXCEPT !.cur = old, !.ops[o].control_inputs = @ \o W.ret]

\* AddOp, external control inputs pulled in as data inputs of identities
PullExternalControlInputsKeepRaw(W, c, o, external) ==
  IF Failed(W) \/ external = <<>> THEN W
  ELSE [W EXCEPT !.ops[o].control_inputs = @ \o external]

PullExternalControlInputs(W, c, o, external) ==
  IF Failed(W) \/ external = <<>> THEN W
  ELSE PullExternalEnd(
         MakeIdentities(Enter([W EXCEPT !.cur = 0], c), c, external, 1, <<>>),
         c, o, W.cur)

\* AddOp, outputs marked as seen by the context and its ancestors
MarkSeenLocalOnly(W, context, names) ==
  IF context = 0 THEN W
  ELSE [W EXCEPT !.ctxs[context].values = @ \cup names]

MarkSeen(W, context, names) ==
  IF context = 0 THEN W
  ELSE MarkSeen([W EXCEPT !.ctxs[context].values = @ \cup names],
                W.ctxs[context].outer_context, names)

\* AddOp returned normally
AddOpReturned(W, c, o) ==
  IF Failed(W) THEN W ELSE [W EXCEPT !.addok = @ \cup {<<c, o>>}]

\* AddOp, notification of the outer context
NotifyOuter(W, c, o) ==
  IF W.ctxs[c].outer_context # 0
  THEN ContextAddInnerOp(W, W.ctxs[c].outer_context, o)
  ELSE W

\* AddOp, from the marking of the outputs to the end
AddOpSeen(W, c, o) ==
  IF Failed(W) THEN W
  ELSE AddOpReturned(
         NotifyOuter(MarkSeen(W, c, Range(Outputs(W, o))), c, o), c, o)

\* AddOp, the rewiring of control and data inputs
AddOpRewire(W, c, o) ==
  AddOpSeen(
    PullExternalControlInputs(
      AddPivotOrResolveInputs(_RemoveExternalControlEdges(W, c, o), c, o,
                              internal_control_inputs(W, c, o)),
      c, o, external_control_inputs(W, c, o)),
    c, o)

\* AddOp, from the tagging on
AddOpTagged(W, c, o) ==
  IF Failed(W) THEN W
  ELSE AddOpRewire(PreventFeedFetch(SetClusterAttr(W, c, o), c, o), c, o)

\* XLACompileContext.AddOp
AddOp(W, c, o) ==
  AddOpTagged(
    CheckNotTagged(
      CheckRefInputs(RecordUnsupported(LogBlacklisted(W, c, o), c, o), c, o),
      c, o),
    c, o)

\* AddInnerOp, the outer context is told after self.AddOp(op)
AddInnerOpOuter(W, c, o) ==
  IF Failed(W) THEN W
  ELSE IF W.ctxs[c].outer_context # 0
  THEN ContextAddInnerOp(W, W.ctxs[c].outer_context, o)
  ELSE W

\* XLACompileContext.AddInnerOp; the invocation is entered in the history
AddInnerOp(W, c, o) ==
  AddInnerOpOuter(
    AddOp([W EXCEPT !.hist = Append(@,
             Event("AddInnerOp", c, <<o, 0>>, NoTensor, FALSE, FALSE))],
          c, o),
    c, o)

(* ---------------- control-flow contexts of another class -------------- *)
\* A compiled region can be built inside the branch of a conditional, and a
\* conditional inside a compiled region.  CondContext is modelled by the
\* protocol it shares with XLACompileContext: AddValue threads a value in
\* through a Switch operation of its own and remembers it, AddOp resolves
\* the inputs of an operation created in the branch, marks its outputs as
\* seen and tells the outer context, AddInnerOp passes the notification
\* on.  Its handling of control edges and of its own pivot is left out.
RECURSIVE CondAddValue(_, _, _), CondResolveInputs(_, _, _, _)

\* CondContext.__init__
NewCondContext(W) ==
  [W EXCEPT !.ctxs = Append(@, [kind |-> "cond", name |-> "cond",
                                pivot |-> 0, values |-> {},
                                external_values |-> EmptyMap,
                                unsupported_ops |-> <<>>,
                                outer_context |-> W.cur,
                                context_stack |-> <<>>])]

\* CondContext.AddValue, the result of the outer context adopted
CondAdopt(W, k) ==
  IF Failed(W) THEN W
  ELSE [W EXCEPT !.ctxs[k].values = @ \cup {W.ret},
                 !.ctxs[k].external_values = Put(@, W.ret, W.ret)]

\* CondContext.AddValue, resolution through the outer context
CondOuterValue(W, k, val) ==
  IF W.ctxs[k].outer_context # 0
  THEN CondAdopt(ContextAddValue(W, W.ctxs[k].outer_context, val), k)
  ELSE [W EXCEPT !.ret = val]

\* CondContext.AddValue, the Switch output marked as seen and recorded as
\* the external value of val; old is the control-flow context that
\* control_dependencies(None) had saved
CondRecord(W, k, val, switch, old) ==
  IF Failed(W) THEN [W EXCEPT !.cur = old]
  ELSE [MarkSeen(W, k, {<<switch, 1>>})
          EXCEPT !.cur = old, !.ret = <<switch, 1>>,
                 !.ctxs[k].external_values = Put(@, val, <<switch, 1>>)]

\* CondContext.AddValue, the outer context told about the Switch
CondNotifySwitch(W, k, switch) ==
  IF W.ctxs[k].outer_context # 0
  THEN ContextAddInnerOp(W, W.ctxs[k].outer_context, switch)
  ELSE W

\* CondContext.AddValue, the Switch created under control_dependencies(None)
\* on the value W.ret resolved so far
CondSwitch(W, k, val) ==
  IF Failed(W) THEN W
  ELSE CondRecord(
         CondNotifySwitch(
           [W EXCEPT !.cur = 0,
                     !.ops = Append(@,
                       [type |-> "Switch", inputs |-> <<W.ret>>,
                        control_inputs |-> <<>>, orig_control |-> <<>>,
                        attr |-> NoAttr, ctx |-> k, nout |-> 2,
                        is_ref |-> FALSE, feedable |-> TRUE,
                        fetchable |-> FALSE])],
           k, Len(W.ops) + 1),
         k, val, Len(W.ops) + 1, W.cur)

\* CondContext.AddValue; the resolved value is left in W.ret
CondAddValue(W, k, val) ==
  IF val \in W.ctxs[k].values
  THEN [W EXCEPT !.ret = IF val \in DOMAIN W.ctxs[k].external_values
                         THEN W.ctxs[k].external_values[val] ELSE val]
  ELSE CondSwitch(
         CondOuterValue([W EXCEPT !.ctxs[k].values = @ \cup {val}], k, val),
         k, val)

\* CondContext._AddOpInternal, the loop over op.inputs
CondResolveInputs(W, k, o, index) ==
  IF Failed(W) THEN W
  ELSE IF index > Len(W.ops[o].inputs) THEN W
  ELSE CondResolveInputs(
         UpdateInput(CondAddValue(W, k, W.ops[o].inputs[index]), o, index),
         k, o, index + 1)

\* CondContext._AddOpInternal, from the marking of the outputs to the end
CondSeen(W, k, o) ==
  IF Failed(W) THEN W
  ELSE CondNotifySwitch(
         [MarkSeen(W, k, Range(Outputs(W, o)))
            EXCEPT !.ops[o].fetchable = FALSE],
         k, o)

\* CondContext.AddOp
CondAddOp(W, k, o) == CondSeen(CondResolveInputs(W, k, o, 1), k, o)

\* ControlFlowContext.AddInnerOp, which CondContext inherits
\* the invocation is entered in the history
CondAddInnerOp(W, k, o) ==
  IF W.ctxs[k].outer_context # 0
  THEN ContextAddInnerOp(
         [W EXCEPT !.hist = Append(@,
            Event("AddInnerOp", k, <<o, 0>>, NoTensor, FALSE, FALSE))],
         W.ctxs[k].outer_context, o)
  ELSE [W EXCEPT !.hist = Append(@,
          Event("AddInnerOp", k, <<o, 0>>, NoTensor, FALSE, FALSE))]

\* the method of the context's class
ContextAddOp(W, c, o) ==
  IF W.ctxs[c].kind = "xla" THEN AddOp(W, c, o) ELSE CondAddOp(W, c, o)

ContextAddInnerOp(W, c, o) ==
  IF W.ctxs[c].kind = "xla" THEN AddInnerOp(W, c, o)
  ELSE CondAddInnerOp(W, c, o)

ContextAddValue(W, c, val) ==
  IF W.ctxs[c].kind = "xla" THEN AddValue(W, c, val)
  ELSE CondAddValue(W, c, val)

\* XLACompileContext.report_unsupported_operations: the count the first
\* warning carries (0 when no warning is emitted), the lines of its listing
\* and the remainder count (0 when no remainder message is emitted)
ReportLine(W, o) == [type |-> W.ops[o].type, name |-> o]

NoReport == [total |-> 0, listed |-> <<>>, more |-> 0]

report_unsupported_operationsNoCap(W, c) ==
  IF W.ctxs[c].unsupported_ops # <<>>
  THEN [total |-> Len(W.ctxs[c].unsupported_ops),
        listed |-> [i \in 1..Len(W.ctxs[c].unsupported_ops) |->
                      ReportLine(W, W.ctxs[c].unsupported_ops[i])],
        more |-> 0]
  ELSE NoReport

report_unsupported_operations(W, c) ==
  IF W.ctxs[c].unsupported_ops # <<>>
  THEN [total |-> Len(W.ctxs[c].unsupported_ops),
        listed |->
          [i \in 1..(IF Len(W.ctxs[c].unsupported_ops) > _MAX_WARNING_LINES
                     THEN _MAX_WARNING_LINES
                     ELSE Len(W.ctxs[c].unsupported_ops)) |->
             ReportLine(W, W.ctxs[c].unsupported_ops[i])],
        more |-> IF Len(W.ctxs[c].unsupported_ops) > _MAX_WARNING_LINES
                 THEN Len(W.ctxs[c].unsupported_ops) - _MAX_WARNING_LINES
                 ELSE 0]
  ELSE NoReport

(* ----------------------- nested structures (nest) --------------------- *)
\* A leaf is a tensor <<op, idx>>, an Operation, a Python value that
\* convert_to_tensor accepts, an object it rejects, or None.  The values it
\* accepts are a non-empty str (a collections.Sequence whose elements are
\* str, hence sequences), a bytes object or the empty str (a
\* collections.Sequence without an element that is a sequence), and the
\* values that are no collections.Sequence (a number, an array).
NoLeaf == [k |-> "na", op |-> 0, idx |-> 0]
NoneLeaf == [k |-> "none", op |-> 0, idx |-> 0]
ValueLeaf == [k |-> "value", op |-> 0, idx |-> 0]
StrLeaf == [k |-> "str", op |-> 0, idx |-> 0]
BytesLeaf == [k |-> "bytes", op |-> 0, idx |-> 0]
ObjectLeaf == [k |-> "object", op |-> 0, idx |-> 0]
TensorLeaf(t) == [k |-> "tensor", op |-> t[1], idx |-> t[2]]
OpLeaf(o) == [k |-> "op", op |-> o, idx |-> 0]
LeafTensor(l) == <<l.op, l.idx>>

SNone == [kind |-> "none", leaf |-> NoneLeaf, items |-> <<>>]
SLeaf(l) == [kind |-> "leaf", leaf |-> l, items |-> <<>>]
SSeq(items) == [kind |-> "seq", leaf |-> NoLeaf, items |-> items]
SDict(items) == [kind |-> "dict", leaf |-> NoLeaf, items |-> items]
SLeaves(ls) == [i \in 1..Len(ls) |-> SLeaf(ls[i])]

RECURSIVE flatten(_), flatten_items(_), pack_from(_, _, _), LeavesBefore(_, _)
\* nest.flatten
flatten(s) ==
  IF s.kind \in {"leaf", "none"} THEN <<s.leaf>> ELSE flatten_items(s.items)

flatten_items(items) ==
  IF items = <<>> THEN <<>>
  ELSE flatten(Head(items)) \o flatten_items(Tail(items))

LeavesBefore(items, i) ==
  IF i <= 1 THEN 0
  ELSE LeavesBefore(items, i - 1) + Len(flatten(items[i - 1]))

\* nest.pack_sequence_as, filling structure s with flat[k], flat[k+1], ...
pack_from(s, flat, k) ==
  IF s.kind \in {"leaf", "none"} THEN SLeaf(flat[k])
  ELSE [s EXCEPT !.items = [i \in 1..Len(s.items) |->
          pack_from(s.items[i], flat, k + LeavesBefore(s.items, i))]]

pack_sequence_as(structure, flat_sequence) ==
  pack_from(structure, flat_sequence, 1)

(* ------------------------- output normalizers ------------------------- *)
\* is_flat; a collections.Sequence is a list, a tuple, a str or a bytes
\* object; the elements of a non-empty str are str, hence sequences, and
\* those of a bytes object are integers
is_flat(outputs) ==
  IF outputs.kind = "seq"
     /\ \E i \in 1..Len(outputs.items) :
           \/ outputs.items[i].kind \in {"seq", "dict"}
           \/ /\ outputs.items[i].kind = "leaf"
              /\ outputs.items[i].leaf.k \in {"str", "bytes"}
  THEN FALSE
  ELSE IF outputs.kind = "leaf" /\ outputs.leaf.k = "str" THEN FALSE
  ELSE IF outputs.kind = "dict" THEN FALSE
  ELSE TRUE

\* the value a library call returns, unless it raised
Returns(W, v) == IF Failed(W) THEN W ELSE [W EXCEPT !.ret = v]

\* ops.convert_to_tensor: the tensor is left in W.ret
convert_to_tensor(W, l) ==
  IF Failed(W) THEN W
  ELSE IF l.k = "tensor" THEN [W EXCEPT !.ret = LeafTensor(l)]
  ELSE IF l.k \in {"value", "str", "bytes"}
  THEN Returns(create_op(W, "Const", <<>>, <<>>, 1, FALSE),
               <<Len(W.ops) + 1, 0>>)
  ELSE Raise(W, "TypeError")

\* array_ops.identity: the tensor is left in W.ret
identity(W, t, control_inputs) ==
  Returns(create_op(W, "Identity", <<t>>, control_inputs, 1, FALSE),
          <<Len(W.ops) + 1, 0>>)

\* control_flow_ops.no_op: the operation is left in W.ret
no_op(W, control_inputs) ==
  Returns(create_op(W, "NoOp", <<>>, control_inputs, 0, FALSE),
          Len(W.ops) + 1)

RECURSIVE ConvertAll(_, _, _, _), IdentityAll(_, _, _, _, _)
RECURSIVE NonFlatAll(_, _, _, _)

\* the conversion comprehension, after the conversion of element i
ConvertAllNext(W, elems, i, acc) ==
  IF Failed(W) THEN W
  ELSE ConvertAll(W, elems, i + 1, Append(acc, TensorLeaf(W.ret)))

\* _postprocess_flat_outputs, the conversion comprehension
ConvertAll(W, elems, i, acc) ==
  IF Failed(W) THEN W
  ELSE IF i > Len(elems) THEN [W EXCEPT !.ret = acc]
  ELSE IF elems[i].k = "op"
  THEN ConvertAll(W, elems, i + 1, Append(acc, elems[i]))
  ELSE ConvertAllNext(convert_to_tensor(W, elems[i]), elems, i, acc)

\* the loops wrapping tensors in identities (and the driver's wrappers)
IdentityAll(W, type, ts, control_inputs, acc) ==
  IF Failed(W) THEN W
  ELSE IF ts = <<>> THEN [W EXCEPT !.ret = acc]
  ELSE IdentityAll(
         create_op(W, type, <<Head(ts)>>, control_inputs, 1, FALSE),
         type, Tail(ts), control_inputs, Append(acc, <<Len(W.ops) + 1, 0>>))

IsOpLeaf(l) == l.k = "op"
NotOpLeaf(l) == l.k # "op"
LeafOps(ls) == [i \in 1..Len(ls) |-> ls[i].op]
LeafTensors(ls) == [i \in 1..Len(ls) |-> LeafTensor(ls[i])]

\* _postprocess_flat_outputs, outputs after the legacy special cases: an
\* empty tuple for None, a tuple of one element for a value that is no
\* collections.Sequence, and outputs itself for a list, a tuple, a str or
\* a bytes object
FlatElems(outputs) ==
  IF outputs.kind = "none" THEN SSeq(<<>>)
  ELSE IF \/ outputs.kind = "dict"
          \/ outputs.kind = "leaf" /\ outputs.leaf.k \notin {"str", "bytes"}
  THEN SSeq(<<outputs>>)
  ELSE outputs

\* the elements of a list or tuple of leaves
ItemLeaves(s) == [i \in 1..Len(s.items) |-> s.items[i].leaf]

\* _postprocess_flat_outputs, the no-op appended to the outputs: the no-op
\* is built first, and a str or a bytes object cannot take a tuple
AppendNoOpNone(W, elems) == [W EXCEPT !.ret = ItemLeaves(elems)]

AppendNoOpEnd(W, elems) ==
  IF Failed(W) THEN W
  ELSE IF elems.kind # "seq" THEN Raise(W, "TypeError")
  ELSE [W EXCEPT !.ret = Append(ItemLeaves(elems), OpLeaf(W.ret))]

AppendNoOp(W, elems) == AppendNoOpEnd(no_op(W, <<>>), elems)

\* _postprocess_flat_outputs, the except clause of the conversion
WrapConvertError(W) ==
  IF Failed(W) THEN Raise(W, "ValueError_convert") ELSE W

\* _postprocess_flat_outputs, the conversion of W.ret inside try
FlatConvert(W) ==
  IF Failed(W) THEN W ELSE WrapConvertError(ConvertAll(W, W.ret, 1, <<>>))

\* _postprocess_flat_outputs, the order test
OrderTestAcceptAll(W, elems) == W

OrderTest(W, elems) ==
  IF Failed(W) THEN W
  ELSE IF elems # SelectSeq(elems, NotOpLeaf) \o SelectSeq(elems, IsOpLeaf)
  THEN Raise(W, "ValueError_order")
  ELSE W

\* the pair the normalizers return
Normalized(W, operations) ==
  IF Failed(W) THEN W
  ELSE [W EXCEPT !.ret = [tensors |-> W.ret, operations |-> operations]]

\* _postprocess_flat_outputs, the identities and the returned pair
FlatWrap(W, elems) ==
  IF Failed(W) THEN W
  ELSE Normalized(
         IdentityAll(W, "Identity", LeafTensors(SelectSeq(elems, NotOpLeaf)),
                     <<>>, <<>>),
         LeafOps(SelectSeq(elems, IsOpLeaf)))

\* _postprocess_flat_outputs, from the separation of the converted outputs
FlatPartition(W) ==
  IF Failed(W) THEN W ELSE FlatWrap(OrderTest(W, W.ret), W.ret)

\* _postprocess_flat_outputs: W.ret is [tensors, operations]
_postprocess_flat_outputs(W, outputs) ==
  FlatPartition(FlatConvert(AppendNoOp(W, FlatElems(outputs))))

\* the loop of _postprocess_non_flat_outputs, after the conversion of leaf i
NonFlatWrap(W) ==
  IF Failed(W) THEN Raise(W, "ValueError_convert")
  ELSE identity(W, W.ret, <<>>)

NonFlatNext(W, leaves, i, acc) ==
  IF Failed(W) THEN W
  ELSE NonFlatAll(W, leaves, i + 1, Append(acc, W.ret))

\* _postprocess_non_flat_outputs, the loop over nest.flatten(outputs)
NonFlatAllSkipOps(W, leaves, i, acc) ==
  IF Failed(W) THEN W
  ELSE IF i > Len(leaves) THEN [W EXCEPT !.ret = acc]
  ELSE IF leaves[i].k = "op" THEN NonFlatAll(W, leaves, i + 1, acc)
  ELSE NonFlatNext(NonFlatWrap(convert_to_tensor(W, leaves[i])),
                   leaves, i, acc)

NonFlatAll(W, leaves, i, acc) ==
  IF Failed(W) THEN W
  ELSE IF i > Len(leaves) THEN [W EXCEPT !.ret = acc]
  ELSE IF leaves[i].k = "op" THEN Raise(W, "ValueError_nonflat_op")
  ELSE NonFlatNext(NonFlatWrap(convert_to_tensor(W, leaves[i])),
                   leaves, i, acc)

\* _postprocess_non_flat_outputs: W.ret is [tensors, operations]
_postprocess_non_flat_outputs(W, outputs) ==
  Normalized(NonFlatAll(W, flatten(outputs), 1, <<>>), <<>>)

(* --------------------------- compile driver --------------------------- *)
RECURSIVE ConvertInputs(_, _, _, _), AddNames(_, _, _)

ConvertInputsNext(W, elems, i, acc) ==
  IF Failed(W) THEN W
  ELSE ConvertInputs(W, elems, i + 1, Append(acc, W.ret))

\* _compile_internal, conversion of the flattened inputs
ConvertInputs(W, elems, i, acc) ==
  IF Failed(W) THEN W
  ELSE IF i > Len(elems) THEN [W EXCEPT !.ret = acc]
  ELSE ConvertInputsNext(convert_to_tensor(W, elems[i]), elems, i, acc)

AddNames(W, c, ts) ==
  IF ts = <<>> THEN W ELSE AddNames(AddName(W, c, Head(ts)), c, Tail(ts))

\* ControlFlowContext.ExitResult
ExitResult(W, c, result) ==
  IF W.ctxs[c].outer_context # 0
  THEN AddNames(W, W.ctxs[c].outer_context, result)
  ELSE W

\* control_flow_ops.group of operations placed on one device
group(W, deps) == no_op(W, deps)

\* _compile_internal, the finally clause: the report, then Exit
Finally(W, c) == Exit(Note(W, "report", c), c)

\* tensors as the leaves of a structure
ResultLeaves(output_tensors) ==
  [i \in 1..Len(output_tensors) |-> TensorLeaf(output_tensors[i])]

\* _compile_internal, nest.pack_sequence_as(structure=inputs,
\* flat_sequence=flat_inputs): the arguments of computation are the elements
\* of the packed structure, a tensor for an element that is a leaf; for
\* inputs that is a str or a bytes object the packed structure is one
\* tensor and no sequence
computation_inputs(inputs, flat_inputs) ==
  LET packed == pack_sequence_as(inputs, ResultLeaves(flat_inputs))
  IN IF packed.kind # "seq" THEN packed
     ELSE [i \in 1..Len(packed.items) |->
             IF packed.items[i].kind = "leaf"
             THEN LeafTensor(packed.items[i].leaf)
             ELSE packed.items[i]]

\* _compile_internal, the try block up to the call of computation: W.ret
\* is the context, the arguments of computation and whether the variable
\* scope was told to use resource variables
TryEntered(W, c, inputs) ==
  IF Failed(W)
  THEN [Finally(W, c) EXCEPT
          !.ret = [ctx |-> c, args |-> <<>>, use_resource_set |-> FALSE]]
  ELSE [W EXCEPT !.ret = [ctx |-> c,
                          args |-> computation_inputs(inputs, W.ret),
                          use_resource_set |-> TRUE]]

\* _compile_internal, context creation and the identities of the inputs;
\* the context carries the name unique_name gave last
EnterCluster(W, inputs, flat_inputs) ==
  IF Failed(W)
  THEN [W EXCEPT
          !.ret = [ctx |-> 0, args |-> <<>>, use_resource_set |-> FALSE]]
  ELSE TryEntered(
         IdentityAll(
           Enter(NewContext(W, ClusterName(W.names_in_use), W.ret),
                 Len(W.ctxs) + 1),
           "Identity", flat_inputs, <<>>, <<>>),
         Len(W.ctxs) + 1, inputs)

\* _compile_internal, unique_name('cluster') and the pivot: the name is
\* taken whether or not the pivot can be built
MakePivot(W, inputs) ==
  IF Failed(W) THEN EnterCluster(W, inputs, W.ret)
  ELSE EnterCluster(no_op([W EXCEPT !.names_in_use = @ + 1], <<>>),
                    inputs, W.ret)

\* _compile_internal, inputs = [] when inputs is None
InputsOrEmpty(inputs) == IF inputs.kind = "none" THEN SSeq(<<>>) ELSE inputs

\* _compile_internal, from the test of inputs to the call of computation;
\* a list, a tuple, a str and a bytes object are collections.Sequence
CheckedInputs(W, inputs) ==
  IF \/ inputs.kind = "dict"
     \/ inputs.kind = "leaf" /\ inputs.leaf.k \notin {"str", "bytes"}
  THEN [Raise(W, "TypeError") EXCEPT
          !.ret = [ctx |-> 0, args |-> <<>>, use_resource_set |-> FALSE]]
  ELSE MakePivot(ConvertInputs(W, flatten(inputs), 1, <<>>), inputs)

\* _compile_internal from its start to the call of computation
CompileEnter(W, inputs) == CheckedInputs(W, InputsOrEmpty(inputs))

\* _compile_internal, computation(*computation_inputs): when inputs is a
\* str or a bytes object the argument list is one tensor, unpacking it
\* raises TypeError (a tensor is not iterable) and the finally clause runs
UnpackArguments(W, inputs) ==
  IF Failed(W) \/ inputs.kind = "seq" THEN W
  ELSE [Finally(Raise(W, "TypeError"), W.ret.ctx) EXCEPT
          !.ret = [W.ret EXCEPT !.args = <<>>]]

\* _compile_internal, what is built when there is no output tensor
ReturnNoOpNoDeps(W, control_deps) == group(W, <<>>)

ReturnNoOp(W, control_deps) == group(W, control_deps)

\* the identities carrying the control dependencies
WrapIdentities(W, control_deps) ==
  IF Failed(W) THEN W
  ELSE IdentityAll(W, "Identity", W.ret, control_deps, <<>>)

\* _compile_internal, the wrappers of the output tensors
WrapOutputsNoDeps(W, output_tensors, control_deps) ==
  WrapIdentities(
    IdentityAll(W, "XlaClusterOutput", output_tensors, <<>>, <<>>), <<>>)

WrapOutputs(W, output_tensors, control_deps) ==
  WrapIdentities(
    IdentityAll(W, "XlaClusterOutput", output_tensors, <<>>, <<>>),
    control_deps)

\* _compile_internal, what is returned for at least one output tensor
PackResultUnwrapSingle(outputs, outputs_is_flat, output_tensors) ==
  IF ~outputs_is_flat
  THEN pack_sequence_as(outputs, ResultLeaves(output_tensors))
  ELSE IF Len(output_tensors) = 1 THEN SLeaf(ResultLeaves(output_tensors)[1])
  ELSE SSeq(SLeaves(ResultLeaves(output_tensors)))

PackResult(outputs, outputs_is_flat, output_tensors) ==
  IF ~outputs_is_flat
  THEN pack_sequence_as(outputs, ResultLeaves(output_tensors))
  ELSE SSeq(SLeaves(ResultLeaves(output_tensors)))

NoResult == [result |-> SNone, output_tensors |-> <<>>, control_deps |-> <<>>]

\* _compile_internal, the value returned
DriverResult(W, outputs, output_tensors, control_deps) ==
  IF Failed(W) THEN [W EXCEPT !.ret = NoResult]
  ELSE [W EXCEPT !.ret =
          [result |-> IF output_tensors = <<>> THEN SLeaf(OpLeaf(W.ret))
                      ELSE PackResult(outputs, is_flat(outputs), W.ret),
           output_tensors |-> output_tensors,
           control_deps |-> control_deps]]

\* _compile_internal, after the finally clause
AfterCluster(W, outputs, output_tensors, control_deps) ==
  DriverResult(IF output_tensors = <<>> THEN ReturnNoOp(W, control_deps)
               ELSE WrapOutputs(W, output_tensors, control_deps),
               outputs, output_tensors, control_deps)

\* _compile_internal, ExitResult and the finally clause
LeaveCluster(W, c, outputs) ==
  IF Failed(W) THEN [Finally(W, c) EXCEPT !.ret = NoResult]
  ELSE AfterCluster(Finally(ExitResult(W, c, W.ret.tensors), c), outputs,
                    W.ret.tensors, W.ret.operations)

\* _compile_internal from the return of computation to its end: W.ret is
\* the result with the normalizer's pair
CompileReturn(W, c, outputs) ==
  LeaveCluster(IF is_flat(outputs) THEN _postprocess_flat_outputs(W, outputs)
               ELSE _postprocess_non_flat_outputs(W, outputs),
               c, outputs)

(* --------------------- check_function_argument_count ------------------ *)
\* tf_inspect.getargspec(func): args is len(arg_spec.args), defaults is
\* len(arg_spec.defaults) or NoDefaults when arg_spec.defaults is None,
\* varargs is whether arg_spec.varargs is not None.  An infeed queue is
\* its number_of_tuple_elements, NoQueue when infeed_queue is None.
NoDefaults == 0 - 1
NoQueue == 0 - 1

\* the value None, the function can be called
None == [complaint |-> "", quantity |-> 0, suffix |-> ""]

format_error(complaint, quantity) ==
  [complaint |-> complaint, quantity |-> quantity,
   suffix |-> IF quantity = 1 THEN "" ELSE "s"]

num_args_suppliedNoQueue(input_arity, infeed_queue) == input_arity

num_args_supplied(input_arity, infeed_queue) ==
  IF infeed_queue # NoQueue THEN input_arity + infeed_queue ELSE input_arity

num_func_defaults(arg_spec) ==
  IF arg_spec.defaults = NoDefaults THEN 0 ELSE arg_spec.defaults

min_func_args(arg_spec) == arg_spec.args - num_func_defaults(arg_spec)

\* the branch for too few arguments
TooFew(arg_spec) ==
  IF num_func_defaults(arg_spec) = 0 /\ ~arg_spec.varargs
  THEN format_error("exactly", arg_spec.args)
  ELSE format_error("at least", min_func_args(arg_spec))

\* the branch for too many arguments
TooManyAlwaysAtMost(arg_spec) == format_error("at most", arg_spec.args)

TooMany(arg_spec) ==
  IF num_func_defaults(arg_spec) = 0
  THEN format_error("exactly", arg_spec.args)
  ELSE format_error("at most", arg_spec.args)

check_function_argument_count(arg_spec, input_arity, infeed_queue) ==
  IF num_args_supplied(input_arity, infeed_queue) < min_func_args(arg_spec)
  THEN TooFew(arg_spec)
  ELSE IF /\ ~arg_spec.varargs
          /\ num_args_supplied(input_arity, infeed_queue) > arg_spec.args
  THEN TooMany(arg_spec)
  ELSE None

(* ------------------------------ actions ------------------------------- *)
\* no call of the arity checker
NoArityCheck ==
  [func |-> [args |-> 0, defaults |-> NoDefaults, varargs |-> FALSE],
   input_arity |-> 0, infeed_queue |-> NoQueue, called |-> FALSE,
   result |-> None]
World == [ops |-> ops, ctxs |-> ctxs, cur |-> cur, addok |-> addok,
          errlog |-> errlog, hist |-> hist, names_in_use |-> names_in_use,
          err |-> "none", ret |-> <<>>]

Commit(W) ==
  /\ ops' = W.ops
  /\ ctxs' = W.ctxs
  /\ cur' = W.cur
  /\ addok' = W.addok
  /\ errlog' = W.errlog
  /\ hist' = W.hist
  /\ names_in_use' = W.names_in_use

\* cur_before / cur_after: the graph's control-flow context when the call
\* began and when it ended; stack_after: the context's own stack at the
\* end; use_before / use_after: the use_resource flag at both moments
NoCall == [ctx |-> 0, depth |-> 0, returned |-> FALSE, outputs |-> SNone,
           status |-> "none", result |-> SNone, output_tensors |-> <<>>,
           control_deps |-> <<>>, report |-> NoReport,
           inputs |-> SNone, cur_before |-> 0, cur_after |-> 0,
           stack_after |-> <<>>, use_before |-> FALSE, use_after |-> FALSE]

\* the exception reaches the calling computation, if there is one
Propagate(e, callers) == IF callers = <<>> THEN "none" ELSE e

\* the operation types user code builds
OpKinds ==
  { [type |-> "Const", nin |-> 0, nout |-> 1, is_ref |-> FALSE],
    [type |-> "NoOp", nin |-> 0, nout |-> 0, is_ref |-> FALSE],
    [type |-> "Placeholder", nin |-> 0, nout |-> 1, is_ref |-> FALSE],
    [type |-> "VariableV2", nin |-> 0, nout |-> 1, is_ref |-> TRUE],
    [type |-> "Identity", nin |-> 1, nout |-> 1, is_ref |-> FALSE],
    [type |-> "Print", nin |-> 1, nout |-> 1, is_ref |-> FALSE] }

BuiltTensors == UNION {Range(Outputs(World, o)) : o \in built}
SeqsUpTo(S, n) == UNION {[1..k -> S] : k \in 0..n}

Init ==
  /\ ops = <<>>
  /\ ctxs = <<>>
  /\ cur = 0
  /\ addok = {}
  /\ frames = <<>>
  /\ exc = "none"
  /\ last = NoCall
  /\ use_resource \in BOOLEAN
  /\ skip_summary = FALSE
  /\ errlog = <<>>
  /\ built = {}
  /\ ncalls = 0
  /\ hist = <<>>
  /\ names_in_use = 0
  /\ arity = NoArityCheck

BuildOpEnd(W) ==
  /\ Commit(W)
  /\ exc' = W.err
  /\ built' = IF Failed(W) THEN built ELSE built \cup {Len(ops) + 1}

\* user code builds an operation, in a computation or outside any
BuildOp(kind, inputs, control_inputs) ==
  /\ exc = "none"
  /\ Cardinality(built) < MaxUserOps
  /\ BuildOpEnd(create_op(World, kind.type, inputs, control_inputs,
                          kind.nout, kind.is_ref))
  /\ UNCHANGED <<frames, last, use_resource, skip_summary, ncalls, arity>>

CallEnd(W, inputs) ==
  /\ Commit(W)
  /\ IF Failed(W)
     THEN /\ exc' = Propagate(W.err, frames)
          /\ last' = [NoCall EXCEPT !.ctx = W.ret.ctx,
                        !.depth = Len(frames) + 1,
                        !.status = W.err, !.inputs = inputs,
                        !.report = IF W.ret.ctx = 0 THEN NoCall.report
                           ELSE report_unsupported_operations(W, W.ret.ctx),
                        !.cur_before = cur, !.cur_after = W.cur,
                        !.stack_after = IF W.ret.ctx = 0 THEN <<>>
                           ELSE W.ctxs[W.ret.ctx].context_stack,
                        !.use_before = use_resource,
                        !.use_after = W.ret.use_resource_set \/ use_resource]
          /\ use_resource' = (W.ret.use_resource_set \/ use_resource)
          /\ UNCHANGED <<frames, skip_summary>>
     ELSE /\ frames' = Append(frames,
                [kind |-> "compile", ctx |-> W.ret.ctx, inputs |-> inputs,
                 args |-> W.ret.args, saved_use_resource |-> use_resource,
                 original_skip_summary_func |-> skip_summary,
                 cur_before |-> cur])
          /\ use_resource' = TRUE
          /\ skip_summary' = TRUE
          /\ UNCHANGED <<exc, last>>

\* compile(computation, inputs) is called: _compile_internal runs up to the
\* call of computation
Call(inputs) ==
  /\ exc = "none"
  /\ ncalls < MaxCalls
  /\ Len(frames) < MaxDepth
  /\ ncalls' = ncalls + 1
  /\ CallEnd(UnpackArguments(CompileEnter(World, inputs),
                             InputsOrEmpty(inputs)),
             InputsOrEmpty(inputs))
  /\ UNCHANGED <<built, arity>>

ReturnEnd(W, f, outputs) ==
  /\ Commit(W)
  /\ exc' = Propagate(W.err, Front(frames))
  /\ last' = [ctx |-> f.ctx, depth |-> Len(frames), returned |-> TRUE,
              outputs |-> outputs,
              status |-> IF Failed(W) THEN W.err ELSE "ok",
              result |-> W.ret.result,
              output_tensors |-> W.ret.output_tensors,
              control_deps |-> W.ret.control_deps,
              report |-> report_unsupported_operations(W, f.ctx),
              inputs |-> f.inputs, cur_before |-> f.cur_before,
              cur_after |-> W.cur,
              stack_after |-> W.ctxs[f.ctx].context_stack,
              use_before |-> f.saved_use_resource,
              use_after |-> f.saved_use_resource]
  /\ use_resource' = f.saved_use_resource
  /\ skip_summary' = f.original_skip_summary_func

\* computation returns outputs: _compile_internal runs to its end
Return(outputs) ==
  /\ exc = "none"
  /\ frames # <<>>
  /\ frames[Len(frames)].kind = "compile"
  /\ ReturnEnd(CompileReturn(World, frames[Len(frames)].ctx, outputs),
               frames[Len(frames)], outputs)
  /\ frames' = Front(frames)
  /\ UNCHANGED <<built, ncalls, arity>>

\* computation raises an exception of its own
UserRaise ==
  /\ exc = "none"
  /\ frames # <<>>
  /\ exc' = "UserError"
  /\ UNCHANGED <<ops, ctxs, cur, addok, frames, last, use_resource,
                 skip_summary, errlog, built, ncalls, hist, names_in_use,
                 arity>>

UnwindEnd(W, f) ==
  /\ Commit(W)
  /\ last' = [NoCall EXCEPT !.ctx = f.ctx, !.depth = Len(frames),
                !.status = exc, !.inputs = f.inputs,
                !.report = report_unsupported_operations(W, f.ctx),
                !.cur_before = f.cur_before, !.cur_after = W.cur,
                !.stack_after = W.ctxs[f.ctx].context_stack,
                !.use_before = f.saved_use_resource,
                !.use_after = use_resource]
  /\ skip_summary' = f.original_skip_summary_func

\* an exception leaves computation: _disable_summary_context restores the
\* summary switch and the finally clause of _compile_internal runs
Unwind ==
  /\ exc # "none"
  /\ frames # <<>>
  /\ frames[Len(frames)].kind = "compile"
  /\ UnwindEnd(Finally(World, frames[Len(frames)].ctx), frames[Len(frames)])
  /\ exc' = Propagate(exc, Front(frames))
  /\ frames' = Front(frames)
  /\ UNCHANGED <<use_resource, built, ncalls, arity>>

\* what a computation can return: leaves it holds, in the shapes below; in
\* a list a non-empty str is treated as a bytes object is, so the shapes
\* hold it only as the whole return value
ReturnLeaves ==
  {TensorLeaf(t) : t \in {u \in BuiltTensors : ~IsRefTensor(World, u)}}
    \cup {OpLeaf(o) : o \in built}
    \cup {ValueLeaf, BytesLeaf, ObjectLeaf}

Shapes(ls) ==
  {SSeq(SLeaves(ls)), SDict(SLeaves(ls)), SSeq(<<SSeq(SLeaves(ls))>>),
   SSeq(<<SSeq(<<SDict(SLeaves(ls))>>)>>)}
    \cup (IF ls = <<>> THEN {SNone, SLeaf(StrLeaf)}
          ELSE {SSeq(<<SLeaf(Head(ls)), SSeq(SLeaves(Tail(ls)))>>)})
    \cup (IF Len(ls) = 1 THEN {SLeaf(ls[1])} ELSE {})

InputLeaves ==
  {TensorLeaf(t) : t \in {u \in BuiltTensors : ~IsRefTensor(World, u)}}
    \cup {ValueLeaf}

InputChoices ==
  {SSeq(SLeaves(ls)) : ls \in SeqsUpTo(InputLeaves, MaxInputs)}
    \cup {SSeq(<<SSeq(<<SLeaf(ValueLeaf)>>)>>),
          SSeq(<<SLeaf(ValueLeaf), SDict(<<SLeaf(ValueLeaf)>>)>>)}
    \cup {SLeaf(ValueLeaf), SLeaf(StrLeaf), SLeaf(BytesLeaf), SNone}

\* the input lists of the graph-centred behaviours: none, or one input
GraphInputs == {SSeq(SLeaves(ls)) : ls \in SeqsUpTo(InputLeaves, 1)}

\* the simple returns: nothing, one value, an empty nested structure
SimpleReturns == {SNone, SLeaf(ValueLeaf), SSeq(<<SSeq(<<>>)>>)}

\* Output-centred behaviours: one driver call, whose computation builds
\* plain operations and returns any structure.
Next ==
  \/ /\ exc = "none"
     /\ frames # <<>> \/ ncalls = 0
     /\ \E kind \in {k \in OpKinds : k.type \in {"Const", "NoOp"}} :
          BuildOp(kind, <<>>, <<>>)
  \/ /\ exc = "none"
     /\ ncalls = 0
     /\ \E inputs \in InputChoices : Call(inputs)
  \/ /\ exc = "none"
     /\ frames # <<>>
     /\ \E ls \in SeqsUpTo(ReturnLeaves, MaxLeaves) :
          \E outputs \in Shapes(ls) : Return(outputs)
  \/ UserRaise
  \/ Unwind

Spec == Init /\ [][Next]_vars

\* Graph-centred behaviours: one top-level driver call and the calls nested
\* in it, whose computations build operations of every kind with data and
\* control inputs and make a simple return.
NextGraph ==
  \/ /\ exc = "none"
     /\ frames # <<>> \/ ncalls = 0
     /\ \E kind \in OpKinds :
          \E inputs \in [1..kind.nin -> BuiltTensors] :
            \E control_inputs \in {<<>>} \cup {<<x>> : x \in built} :
              BuildOp(kind, inputs, control_inputs)
  \/ /\ exc = "none"
     /\ frames = <<>> => ncalls = 0
     /\ \E inputs \in GraphInputs : Call(inputs)
  \/ /\ exc = "none"
     /\ frames # <<>>
     /\ \E outputs \in SimpleReturns : Return(outputs)
  \/ UserRaise
  \/ Unwind

SpecGraph == Init /\ [][NextGraph]_vars

BuildUnsupportedEnd(W) ==
  /\ Commit(W)
  /\ exc' = W.err

\* a computation builds an operation of an unsupported type, whose output
\* it does not use
BuildUnsupported(kind, inputs) ==
  /\ exc = "none"
  /\ Cardinality({o \in 1..Len(ops) : ops[o].type \in _UNSUPPORTED_OPS})
       < MaxUnsupported
  /\ BuildUnsupportedEnd(create_op(World, kind.type, inputs, <<>>,
                                   kind.nout, kind.is_ref))
  /\ UNCHANGED <<frames, last, use_resource, skip_summary, built, ncalls,
                 arity>>

\* Report-centred behaviours: one driver call, whose computation builds
\* one constant and any number of unsupported operations reading it.
NextReport ==
  \/ /\ exc = "none"
     /\ built = {}
     /\ frames # <<>>
     /\ \E kind \in {k \in OpKinds : k.type = "Const"} :
          BuildOp(kind, <<>>, <<>>)
  \/ /\ exc = "none"
     /\ ncalls = 0
     /\ Call(SSeq(<<>>))
  \/ /\ exc = "none"
     /\ frames # <<>>
     /\ \E kind \in
          { [type |-> "Print", nin |-> 1, nout |-> 1, is_ref |-> FALSE],
            [type |-> "ScalarSummary", nin |-> 2, nout |-> 1,
             is_ref |-> FALSE] } :
          \E inputs \in [1..kind.nin -> BuiltTensors] :
            BuildUnsupported(kind, inputs)
  \/ /\ exc = "none"
     /\ frames # <<>>
     /\ Return(SNone)
  \/ UserRaise
  \/ Unwind

SpecReport == Init /\ [][NextReport]_vars

\* tf.cond starts to build a branch: the CondContext is created and entered
EnterCondEnd(W) ==
  /\ Commit(W)
  /\ frames' = Append(frames,
       [kind |-> "cond", ctx |-> Len(W.ctxs), inputs |-> SNone,
        args |-> <<>>, saved_use_resource |-> use_resource,
        original_skip_summary_func |-> skip_summary, cur_before |-> cur])

\* the conditionals built so far
NConds == Cardinality({c \in 1..Len(ctxs) : ctxs[c].kind = "cond"})

EnterCond ==
  /\ exc = "none"
  /\ NConds < MaxConds
  /\ EnterCondEnd(Enter(NewCondContext(World), Len(ctxs) + 1))
  /\ UNCHANGED <<exc, last, use_resource, skip_summary, built, ncalls,
                 arity>>

\* the branch is built, or an exception leaves it: the finally clause of
\* tf.cond exits the CondContext
LeaveCond ==
  /\ frames # <<>>
  /\ frames[Len(frames)].kind = "cond"
  /\ Commit(Exit(World, frames[Len(frames)].ctx))
  /\ exc' = Propagate(exc, Front(frames))
  /\ frames' = Front(frames)
  /\ UNCHANGED <<last, use_resource, skip_summary, built, ncalls, arity>>

Resolves == Cardinality({i \in 1..Len(hist) : hist[i].e = "resolve"})

ResolveValueEnd(W) ==
  /\ Commit(W)
  /\ exc' = W.err

\* code outside AddOp (a context of another class, library code) asks an
\* active cluster context for a value
ResolveValue(c, val) ==
  /\ exc = "none"
  /\ Resolves < MaxResolves
  /\ ResolveValueEnd(AddValue(Note(World, "resolve", c), c, val))
  /\ UNCHANGED <<frames, last, use_resource, skip_summary, built, ncalls,
                 arity>>

\* the operation types of the value-centred behaviours
ValueKinds == {k \in OpKinds : k.type \in {"Const", "Identity"}}

\* the steps of a value-centred behaviour that build something or ask for
\* a value
ValueSteps == ncalls + NConds + Cardinality(built) + Resolves

\* Value-centred behaviours: compiled regions inside and around branches of
\* conditionals, operations with data inputs, and direct calls of AddValue.
NextValue ==
  \/ /\ exc = "none"
     /\ frames # <<>> \/ ncalls + NConds = 0
     /\ ValueSteps < MaxValueSteps
     /\ \E kind \in ValueKinds :
          \E inputs \in [1..kind.nin -> BuiltTensors] :
            BuildOp(kind, inputs, <<>>)
  \/ /\ exc = "none"
     /\ frames = <<>> => ncalls + NConds = 0
     /\ ncalls + NConds < MaxCalls
     /\ ValueSteps < MaxValueSteps
     /\ \E inputs \in GraphInputs : Call(inputs)
  \/ /\ frames = <<>> => ncalls + NConds = 0
     /\ ncalls + NConds < MaxCalls
     /\ Len(frames) < MaxDepth
     /\ ValueSteps < MaxValueSteps
     /\ EnterCond
  \/ /\ exc = "none"
     /\ frames # <<>>
     /\ \E outputs \in SimpleReturns : Return(outputs)
  \/ LeaveCond
  \/ /\ ValueSteps < MaxValueSteps
     /\ \E c \in {x \in 1..Len(ctxs) :
                   ctxs[x].kind = "xla" /\ InChain(World, cur, x)} :
          \E val \in BuiltTensors : ResolveValue(c, val)
  \/ UserRaise
  \/ Unwind

SpecValue == Init /\ [][NextValue]_vars

\* Notification-centred behaviours: compiled regions and conditionals nested
\* in each other to any depth the bounds allow, whose bodies build
\* operations with data inputs and return nothing.
NextNotify ==
  \/ /\ exc = "none"
     /\ frames # <<>>
     /\ \E kind \in ValueKinds :
          \E inputs \in [1..kind.nin -> BuiltTensors] :
            BuildOp(kind, inputs, <<>>)
  \/ /\ exc = "none"
     /\ frames = <<>> => ncalls + NConds = 0
     /\ Call(SSeq(<<>>))
  \/ /\ frames = <<>> => ncalls + NConds = 0
     /\ EnterCond
  \/ /\ exc = "none"
     /\ frames # <<>>
     /\ Return(SNone)
  \/ LeaveCond
  \/ Unwind

SpecNotify == Init /\ [][NextNotify]_vars

\* the functions a caller can hand to the arity checker
ArgSpecs ==
  {[args |-> n, defaults |-> d, varargs |-> v] :
     n \in 0..MaxParams, d \in {NoDefaults} \cup (1..MaxParams),
     v \in BOOLEAN}

\* a caller is about to check a function against the arguments it supplies
InitArity ==
  /\ ops = <<>>
  /\ ctxs = <<>>
  /\ cur = 0
  /\ addok = {}
  /\ frames = <<>>
  /\ exc = "none"
  /\ last = NoCall
  /\ use_resource = FALSE
  /\ skip_summary = FALSE
  /\ errlog = <<>>
  /\ built = {}
  /\ ncalls = 0
  /\ hist = <<>>
  /\ names_in_use = 0
  /\ \E f \in {a \in ArgSpecs : a.defaults <= a.args} :
       \E n \in 0..MaxSupplied :
         \E q \in {NoQueue} \cup (1..MaxQueue) :
           arity = [NoArityCheck EXCEPT !.func = f, !.input_arity = n,
                                        !.infeed_queue = q]

\* check_function_argument_count(func, input_arity, infeed_queue) is called
CheckArity ==
  /\ ~arity.called
  /\ arity' = [arity EXCEPT !.called = TRUE,
                 !.result = check_function_argument_count(
                              arity.func, arity.input_arity,
                              arity.infeed_queue)]
  /\ UNCHANGED <<ops, ctxs, cur, addok, frames, exc, last, use_resource,
                 skip_summary, errlog, built, ncalls, hist, names_in_use>>

SpecArity == InitArity /\ [][CheckArity]_vars

(* ------------------------------ claims -------------------------------- *)
ReturnedElems == ItemLeaves(FlatElems(last.outputs))
ReturnedOps == LeafOps(SelectSeq(ReturnedElems, IsOpLeaf))
ReturnedValues == SelectSeq(ReturnedElems, NotOpLeaf)
ControlInputsOf(o) == Range(ops[o].control_inputs)

\* the flat returns made of operations only (None and the empty sequence too)
OnlyOperations(s) ==
  /\ is_flat(s)
  /\ FlatElems(s).kind = "seq"
  /\ \A l \in Range(ItemLeaves(FlatElems(s))) : l.k = "op"

\* C1: when the computation returns None or operations only, the driver
\* returns one no-op, with no output value, that has a control dependency on
\* every operation the computation returned, whatever the input list is.
C1_NoOpResult ==
  (last.returned /\ OnlyOperations(last.outputs)) =>
    /\ last.status = "ok"
    /\ last.output_tensors = <<>>
    /\ last.result.kind = "leaf"
    /\ last.result.leaf.k = "op"
    /\ ops[last.result.leaf.op].type = "NoOp"
    /\ ops[last.result.leaf.op].nout = 0
    /\ Range(ReturnedOps) \subseteq ControlInputsOf(last.result.leaf.op)

C1_Witness ==
  /\ last.returned
  /\ last.status = "ok"
  /\ OnlyOperations(last.outputs)
  /\ Len(ReturnedOps) = 2
  /\ Len(last.inputs.items) = 1

\* C2: when the driver returns at least one output value, each returned
\* value's operation has a control input on every operation collected from
\* the computation's return value.
C2_OutputsCarryDeps ==
  (last.status = "ok" /\ last.output_tensors # <<>>) =>
    \A l \in Range(flatten(last.result)) :
      /\ l.k = "tensor"
      /\ Range(ReturnedOps) \cup Range(last.control_deps)
           \subseteq ControlInputsOf(l.op)

C2_Witness ==
  /\ last.status = "ok"
  /\ Len(last.output_tensors) = 1
  /\ Len(ReturnedOps) = 1

RECURSIVE SameShape(_, _)
SameShape(a, b) ==
  /\ (a.kind \in {"leaf", "none"}) = (b.kind \in {"leaf", "none"})
  /\ ~(a.kind \in {"leaf", "none"}) =>
        /\ a.kind = b.kind
        /\ Len(a.items) = Len(b.items)
        /\ \A i \in 1..Len(a.items) : SameShape(a.items[i], b.items[i])

AllConvertible(s) ==
  \A l \in Range(flatten(s)) : l.k \in {"tensor", "value", "str", "bytes"}

\* the tensors the driver returns are the wrapped output tensors, in order
ResultWrapsOutputs ==
  LET res == flatten(last.result)
  IN /\ Len(res) = Len(last.output_tensors)
     /\ \A i \in 1..Len(res) :
          /\ res[i].k = "tensor"
          /\ ops[res[i].op].type = "Identity"
          /\ LET m == ops[res[i].op].inputs[1][1]
             IN /\ ops[m].type = "XlaClusterOutput"
                /\ ops[m].inputs = <<last.output_tensors[i]>>

\* output tensor i is an identity of the converted i-th returned value
OutputsWrapValues(values) ==
  /\ Len(last.output_tensors) = Len(values)
  /\ \A i \in 1..Len(values) :
       LET w == ops[last.output_tensors[i][1]]
       IN /\ w.type = "Identity"
          /\ w.ctx = last.ctx
          /\ Len(w.inputs) = 1
          /\ IF values[i].k = "tensor"
             THEN w.inputs[1] = LeafTensor(values[i])
             ELSE ops[w.inputs[1][1]].type = "Const"

\* C3: when the computation returns a non-flat structure of convertible
\* values and the driver completes, the result is the outputs packed in the
\* same structure, one per leaf in flattening order.
C3_SameStructure ==
  (last.returned /\ ~is_flat(last.outputs) /\ AllConvertible(last.outputs)
     /\ last.status = "ok") =>
    /\ SameShape(last.result, last.outputs)
    /\ ResultWrapsOutputs
    /\ OutputsWrapValues(flatten(last.outputs))

\* one value that is no collections.Sequence: a tensor or a Python value
\* such as a number or an array (a str and a bytes object are sequences)
BareValue(s) == s.kind = "leaf" /\ s.leaf.k \in {"tensor", "value"}

\* C4: when the computation returns one bare value, the driver returns a
\* sequence of exactly one element, the identity-wrapped converted value.
C4_SingleValue ==
  (last.returned /\ BareValue(last.outputs)) =>
    /\ last.status = "ok"
    /\ last.result.kind = "seq"
    /\ Len(last.result.items) = 1
    /\ last.result.items[1].kind = "leaf"
    /\ ResultWrapsOutputs
    /\ OutputsWrapValues(<<last.outputs.leaf>>)

\* C4 witness: a call that returned one bare tensor has ended well
C4_Witness ==
  /\ last.returned
  /\ BareValue(last.outputs)
  /\ last.outputs.leaf.k = "tensor"
  /\ last.status = "ok"

\* the flat returns whose elements are operations and convertible values
FlatOfValuesAndOps(s) ==
  /\ is_flat(s)
  /\ FlatElems(s).kind = "seq"
  /\ \A l \in Range(ItemLeaves(FlatElems(s))) :
       l.k \in {"tensor", "value", "op"}

OpBeforeValue(s) ==
  LET e == ItemLeaves(FlatElems(s))
  IN \E i \in 1..Len(e) : \E j \in 1..Len(e) :
       i < j /\ e[i].k = "op" /\ e[j].k # "op"

\* C5: flat normalization raises the ordering error exactly when some
\* operation comes before some value in the returned sequence; a sequence of
\* values followed by operations is accepted.
C5_OrderError ==
  (last.returned /\ FlatOfValuesAndOps(last.outputs)) =>
    /\ (last.status = "ValueError_order") <=> OpBeforeValue(last.outputs)
    /\ ~OpBeforeValue(last.outputs) => last.status = "ok"

C5_Witness ==
  /\ last.returned
  /\ FlatOfValuesAndOps(last.outputs)
  /\ OpBeforeValue(last.outputs)
  /\ last.status = "ValueError_order"

ValuesThenOps(s) == FlatOfValuesAndOps(s) /\ ~OpBeforeValue(s)

\* C6 as stated: for a flat return v1..vn, op1..opm the normalizer returns
\* the values in order and exactly the operations op1..opm, nothing else.
C6_ExactlyReturnedOps ==
  (last.returned /\ ValuesThenOps(last.outputs) /\ last.status = "ok") =>
    /\ OutputsWrapValues(ReturnedValues)
    /\ last.control_deps = ReturnedOps

\* C6 amended: for a flat return v1..vn, op1..opm the normalizer returns the
\* identity-wrapped values in order and the operations op1..opm followed by
\* one no-op that the normalizer itself created in the cluster context.
C6_ReturnedOpsThenNoOp ==
  (last.returned /\ ValuesThenOps(last.outputs) /\ last.status = "ok") =>
    /\ OutputsWrapValues(ReturnedValues)
    /\ Len(last.control_deps) = Len(ReturnedOps) + 1
    /\ SubSeq(last.control_deps, 1, Len(ReturnedOps)) = ReturnedOps
    /\ LET n == last.control_deps[Len(last.control_deps)]
       IN /\ ops[n].type = "NoOp"
          /\ ops[n].ctx = last.ctx
          /\ n \notin built

C6_Witness ==
  /\ last.returned
  /\ ValuesThenOps(last.outputs)
  /\ last.status = "ok"
  /\ Len(ReturnedOps) = 1
  /\ Len(ReturnedValues) = 1

ContainsOp(s) == \E l \in Range(flatten(s)) : l.k = "op"

\* C7: a non-flat return holding an operation at any position and depth
\* makes normalization fail with a ValueError; the driver returns nothing.
C7_NonFlatOpRejected ==
  (last.returned /\ ~is_flat(last.outputs) /\ ContainsOp(last.outputs)) =>
    /\ last.status \in {"ValueError_nonflat_op", "ValueError_convert"}
    /\ last.result = SNone
    /\ last.output_tensors = <<>>

C7_Witness ==
  /\ last.returned
  /\ last.outputs.kind = "seq"
  /\ Len(last.outputs.items) = 1
  /\ last.outputs.items[1].kind = "seq"
  /\ Len(last.outputs.items[1].items) = 1
  /\ last.outputs.items[1].items[1].kind = "dict"
  /\ LET l == flatten(last.outputs)
     IN Len(l) = 2 /\ l[1].k = "tensor" /\ l[2].k = "op"
  /\ last.status = "ValueError_nonflat_op"

\* C8: a driver call made while another cluster context is active never
\* completes successfully.
C8_NestedNeverCompletes ==
  last.status = "ok" => ctxs[last.ctx].outer_context = 0

\* C9: once AddOp(op) has returned on context C, op's cluster tag is C's
\* name, for every operation type, and it stays C's name ever after.
C9_TagIsContextName ==
  \A p \in addok : ops[p[2]].attr = ctxs[p[1]].name

C9_Witness ==
  /\ \E p \in addok : ops[p[2]].type \in _BLACKLISTED_OPS
  /\ \E p \in addok : ops[p[2]].type \in _UNSUPPORTED_OPS
  /\ \E p \in addok : p[2] \notin built
  /\ Len(ctxs) = 2

\* the control inputs op o was created with that are external to context c
ExternalBefore(c, o) ==
  {x \in Range(ops[o].orig_control) : ~InChain(World, ops[x].ctx, c)}

\* o has a control input on an identity, created in c, of x's first output
HasPassThrough(c, o, x) ==
  \E i \in ControlInputsOf(o) :
    /\ ops[i].type = "Identity"
    /\ ops[i].ctx = c
    /\ ops[i].attr = ctxs[c].name
    /\ ops[i].inputs = <<(<<x, 0>>)>>

\* C10 as stated: after AddOp(op) has returned on C, every external control
\* input x of op is replaced by a control input on a pass-through identity,
\* created in C, of x's first output.
C10_EveryExternalReplaced ==
  \A p \in addok : \A x \in ExternalBefore(p[1], p[2]) :
    /\ x \notin ControlInputsOf(p[2])
    /\ HasPassThrough(p[1], p[2], x)

\* C10 amended: after AddOp(op) has returned on C, no external control input
\* x of op is a control input of op any more; if x has an output, op has a
\* control input on a pass-through identity, created in C, of x's first
\* output; if x has no output, x is dropped without a replacement.
C10_ExternalWithOutputReplaced ==
  \A p \in addok : \A x \in ExternalBefore(p[1], p[2]) :
    /\ x \notin ControlInputsOf(p[2])
    /\ ops[x].nout > 0 => HasPassThrough(p[1], p[2], x)
    /\ ops[x].nout = 0 =>
         \A i \in ControlInputsOf(p[2]) :
           i = ctxs[p[1]].pivot \/ InChain(World, ops[i].ctx, p[1])

C10_Witness ==
  \E p \in addok : \E x \in ExternalBefore(p[1], p[2]) :
    ops[x].nout > 0 /\ HasPassThrough(p[1], p[2], x)

\* the control inputs op o was created with that are internal to context c
InternalBefore(c, o) ==
  {x \in Range(ops[o].orig_control) : InChain(World, ops[x].ctx, c)}

\* C11: after AddOp(op) has returned on C, op has a control dependency on
\* C's pivot if op has no data input and none of the control inputs it was
\* created with is internal to C (external ones do not matter); an op with
\* a data input or an internal control input has no pivot dependency.
C11_PivotDependency ==
  \A p \in addok :
    (ctxs[p[1]].pivot \in ControlInputsOf(p[2]))
      <=> (ops[p[2]].inputs = <<>> /\ InternalBefore(p[1], p[2]) = {})

C11_Witness ==
  /\ \E p \in addok :
       /\ ops[p[2]].inputs = <<>>
       /\ ExternalBefore(p[1], p[2]) # {}
       /\ ctxs[p[1]].pivot \in ControlInputsOf(p[2])
  /\ \E p \in addok :
       /\ ops[p[2]].inputs # <<>>
       /\ ctxs[p[1]].pivot \notin ControlInputsOf(p[2])

\* the calls of AddValue on context c for value val, as places of the history
Resolutions(c, val) ==
  {i \in 1..Len(hist) :
     hist[i].e = "AddValue" /\ hist[i].ctx = c /\ hist[i].val = val}

ResolvedPairs ==
  {<<hist[i].ctx, hist[i].val>> : i \in {j \in 1..Len(hist) :
                                          hist[j].e = "AddValue"}}

\* C12: of two calls of AddValue for the same value on the same context,
\* whatever happened before and between them, the second returns the value
\* the first returned and changes neither the context's set of seen values
\* nor its external-values mapping.
C12_AddValueIdempotent ==
  \A p \in ResolvedPairs :
    \A i, j \in Resolutions(p[1], p[2]) :
      i < j => /\ hist[j].ret = hist[i].ret
               /\ ~hist[j].changed

C12_Witness ==
  \E p \in ResolvedPairs :
    \E i, j \in Resolutions(p[1], p[2]) :
      /\ i < j
      /\ ctxs[p[1]].outer_context # 0
      /\ hist[i].changed
      /\ hist[i].ret # p[2]
      /\ hist[j].ret = hist[i].ret

\* what the claims say of a checked call, in the terms of the spec
Supplied ==
  arity.input_arity
    + (IF arity.infeed_queue = NoQueue THEN 0 ELSE arity.infeed_queue)
Declared == arity.func.args
Defaults ==
  IF arity.func.defaults = NoDefaults THEN 0 ELSE arity.func.defaults
Diagnostics == {"exactly", "at least", "at most"}

\* C13: the arity checker returns None exactly when the explicit count plus
\* the queue's element count is at least the declared parameters minus the
\* defaults and, unless the function takes variable-length arguments, at
\* most the declared parameters; otherwise it returns a diagnostic.
C13_NoneIffInRange ==
  arity.called =>
    /\ (arity.result = None) <=>
         /\ Supplied >= Declared - Defaults
         /\ arity.func.varargs \/ Supplied <= Declared
    /\ arity.result # None => arity.result.complaint \in Diagnostics

C13_Witness ==
  /\ arity.called
  /\ arity.result = None
  /\ arity.infeed_queue # NoQueue
  /\ arity.input_arity < Declared - Defaults
  /\ ~arity.func.varargs

\* C14: a rejection says "exactly N" (N the declared parameters) when the
\* function has neither defaults nor variable-length arguments, "at least
\* M" (M the declared parameters minus the defaults) when too few were
\* supplied and it has one of them, "at most N" when too many were supplied
\* and it has defaults and no variable-length arguments.
C14_Diagnostic ==
  (arity.called /\ arity.result # None) =>
    IF Defaults = 0 /\ ~arity.func.varargs
    THEN arity.result = format_error("exactly", Declared)
    ELSE IF Supplied < Declared - Defaults
    THEN arity.result = format_error("at least", Declared - Defaults)
    ELSE /\ Supplied > Declared
         /\ ~arity.func.varargs
         /\ Defaults > 0
         /\ arity.result = format_error("at most", Declared)

C14_Witness ==
  /\ arity.called
  /\ arity.result.complaint = "exactly"
  /\ Supplied > Declared
  /\ arity.infeed_queue # NoQueue

\* C15: whenever a driver call that created its context has ended,
\* normally or with an error, the graph's control-flow context is the one
\* that was current when the call began, and it is not the cluster context.
C15_EnterExitBalanced ==
  last.ctx # 0 =>
    /\ last.cur_after = last.cur_before
    /\ last.cur_after # last.ctx

\* C16: after every driver call that reached the call of computation or
\* failed before it, the use_resource flag of the variable scope equals its
\* value before the call, and while a computation runs the flag is True.
C16_UseResourceRestored ==
  /\ last.depth # 0 => last.use_after = last.use_before
  /\ (frames # <<>> /\ exc = "none") => use_resource

\* the cluster contexts whose driver call has ended
Ended ==
  {c \in 1..Len(ctxs) :
     /\ ctxs[c].kind = "xla"
     /\ \A k \in 1..Len(frames) : frames[k].ctx # c}
ReportsOf(c) == {i \in 1..Len(hist) : hist[i].e = "report" /\ hist[i].ctx = c}
ExitsOf(c) == {i \in 1..Len(hist) : hist[i].e = "Exit" /\ hist[i].ctx = c}

\* C17 as stated: for every driver call that has ended after its context was
\* created, the report of the context has been emitted, and the last Exit
\* of the context precedes it.
C17_ReportAfterExit ==
  \A c \in Ended :
    /\ ReportsOf(c) # {}
    /\ \A i \in ReportsOf(c) : \A j \in ExitsOf(c) : j < i

\* the smaller of two numbers
Min(a, b) == IF a <= b THEN a ELSE b

\* C18: the report of a finished driver call with n recorded unsupported
\* operations is empty when n = 0; otherwise its warning carries n and lists
\* the first min(n, 5) recorded operations in recorded order, and the
\* remainder message is emitted, carrying n - 5, exactly when n > 5.
C18_ReportContent ==
  last.ctx # 0 =>
    IF ctxs[last.ctx].unsupported_ops = <<>>
    THEN last.report = NoReport
    ELSE /\ last.report.total = Len(ctxs[last.ctx].unsupported_ops)
         /\ Len(last.report.listed)
              = Min(Len(ctxs[last.ctx].unsupported_ops), _MAX_WARNING_LINES)
         /\ \A i \in 1..Len(last.report.listed) :
              /\ last.report.listed[i].name = ctxs[last.ctx].unsupported_ops[i]
              /\ last.report.listed[i].type
                   = ops[ctxs[last.ctx].unsupported_ops[i]].type
         /\ (last.report.more # 0)
              <=> Len(ctxs[last.ctx].unsupported_ops) > _MAX_WARNING_LINES
         /\ Len(ctxs[last.ctx].unsupported_ops) > _MAX_WARNING_LINES
              => last.report.more = Len(ctxs[last.ctx].unsupported_ops)
                                      - _MAX_WARNING_LINES

\* C18 witness: a call has ended with more than five recorded operations of
\* two types, five of them listed and a remainder message emitted
C18_Witness ==
  /\ last.ctx # 0
  /\ Len(ctxs[last.ctx].unsupported_ops) > _MAX_WARNING_LINES
  /\ Len(last.report.listed) = _MAX_WARNING_LINES
  /\ last.report.more = Len(ctxs[last.ctx].unsupported_ops) - _MAX_WARNING_LINES
  /\ last.report.listed[1].type # last.report.listed[2].type

\* the invocations of the enclosing context's AddValue that context c made
\* for value val, as places of the history
OuterCalls(c, val) ==
  {i \in 1..Len(hist) :
     hist[i].e = "outer.AddValue" /\ hist[i].ctx = c /\ hist[i].val = val}

\* the first call of AddValue on context c for value val
FirstResolution(c, val) ==
  CHOOSE i \in Resolutions(c, val) : \A j \in Resolutions(c, val) : i <= j

\* C19: for each context with an enclosing context and each value whose
\* first resolution by the context found it not yet seen, the context has
\* invoked the enclosing context's AddValue for the value exactly once,
\* within that first resolution, and every later resolution found the value
\* seen and returned what the first one returned.
C19_ThreadedOnce ==
  \A p \in ResolvedPairs :
    (/\ ctxs[p[1]].outer_context # 0
     /\ ~hist[FirstResolution(p[1], p[2])].seen)
      => /\ Cardinality(OuterCalls(p[1], p[2])) = 1
         /\ \A k \in OuterCalls(p[1], p[2]) : k < FirstResolution(p[1], p[2])
         /\ ctxs[p[1]].external_values[p[2]]
              = hist[FirstResolution(p[1], p[2])].ret
         /\ \A j \in Resolutions(p[1], p[2]) :
              j > FirstResolution(p[1], p[2])
                => /\ hist[j].seen
                   /\ hist[j].ret = ctxs[p[1]].external_values[p[2]]

\* C19 witness: a context inside a conditional has resolved an unseen value
\* through the conditional, which handed back another tensor, and has
\* resolved the same value again later
C19_Witness ==
  \E p \in ResolvedPairs :
    /\ ctxs[p[1]].outer_context # 0
    /\ ~hist[FirstResolution(p[1], p[2])].seen
    /\ Cardinality(Resolutions(p[1], p[2])) >= 2
    /\ Cardinality(OuterCalls(p[1], p[2])) = 1
    /\ ctxs[p[1]].external_values[p[2]] # p[2]

\* C20: once AddOp has returned for operation o on context c, every output
\* of o is in the seen set of c and of every ancestor of c; no cluster
\* context among them has recorded an external value for it or invoked its
\* enclosing context for it, and every AddValue call on one of them for the
\* output found it seen, returned it unchanged and changed nothing.
C20_OutputsSeenUpTheChain ==
  \A p \in addok :
    \A t \in Range(Outputs(World, p[2])) :
      \A a \in {d \in 1..Len(ctxs) : InChain(World, p[1], d)} :
        /\ t \in ctxs[a].values
        /\ ctxs[a].kind = "xla" =>
             /\ t \notin DOMAIN ctxs[a].external_values
             /\ OuterCalls(a, t) = {}
             /\ \A i \in Resolutions(a, t) :
                  /\ hist[i].seen
                  /\ hist[i].ret = t
                  /\ ~hist[i].changed

\* C20 witness: an operation built by a computation inside a conditional
\* was added to the cluster context, and AddValue was called later on the
\* context for its output
C20_Witness ==
  \E p \in addok :
    /\ p[2] \in built
    /\ ctxs[p[1]].outer_context # 0
    /\ \E t \in Range(Outputs(World, p[2])) :
         /\ t \in ctxs[ctxs[p[1]].outer_context].values
         /\ Resolutions(p[1], t) # {}

\* a step in which a computation built an operation and AddOp of the
\* current cluster context raised for it
AddOpRaised ==
  /\ exc = "none"
  /\ exc' \in {"NotImplementedError", "ValueError_nested"}
  /\ ncalls' = ncalls
  /\ Len(ops') > Len(ops)
  /\ cur # 0
  /\ ctxs[cur].kind = "xla"

\* C21: whenever AddOp of a cluster context raises for an operation, the
\* context's seen set, external values and list of unsupported operations
\* are what they were before the call, and the operation has no cluster
\* tag, the control inputs it was created with, and is still feedable and
\* fetchable.
C21_FailingAddOpNoEffect ==
  [][AddOpRaised =>
       /\ ctxs'[cur].values = ctxs[cur].values
       /\ ctxs'[cur].external_values = ctxs[cur].external_values
       /\ ctxs'[cur].unsupported_ops = ctxs[cur].unsupported_ops
       /\ ops'[Len(ops) + 1].attr = NoAttr
       /\ ops'[Len(ops) + 1].control_inputs = ops'[Len(ops) + 1].orig_control
       /\ ops'[Len(ops) + 1].feedable
       /\ ops'[Len(ops) + 1].fetchable]_vars

\* the invocations of AddInnerOp on context c for operation o, as places of
\* the history
InnerOpCalls(c, o) ==
  {i \in 1..Len(hist) :
     hist[i].e = "AddInnerOp" /\ hist[i].ctx = c /\ hist[i].val = <<o, 0>>}

\* the contexts that enclose context c
Ancestors(c) == {a \in 1..Len(ctxs) : a # c /\ InChain(World, c, a)}

\* C22: when an operation created in an inner context has reached a cluster
\* context through one invocation of its AddInnerOp, and the AddOp of that
\* invocation has returned, AddInnerOp has been invoked for the operation
\* exactly once on every context that encloses the cluster context.
C22_AncestorNotifiedOnce ==
  \A c \in {d \in 1..Len(ctxs) : ctxs[d].kind = "xla"} :
    \A o \in 1..Len(ops) :
      (/\ exc = "none"
       /\ Cardinality(InnerOpCalls(c, o)) = 1
       /\ <<c, o>> \in addok)
        => \A a \in Ancestors(c) : Cardinality(InnerOpCalls(a, o)) = 1

====
